---- MODULE Spec2Model ----
(***************************************************************************)
(* simplegit: a minimal git-like version control program.                  *)
(*                                                                         *)
(* The model follows src/simplegit/simplegit.py.  The state is the part of *)
(* the file system the program reads and writes: the working tree, the     *)
(* marker directory with its HEAD and TO_COMMIT files, and one record      *)
(* directory per commit (TRACKED_LIST, PREV_COMMIT, COMMIT_DIR).  Each     *)
(* command-line invocation is a process; commit and init advance one file  *)
(* system call at a time, add and status are one step each.  The search    *)
(* for the repository of a directory advances one turn of its loop at a    *)
(* time where it is followed on its own.                                   *)
(***************************************************************************)
EXTENDS Naturals, Integers, Sequences, FiniteSets, TLC

VARIABLES
    wt,             \* working tree: file path -> content, 0 when the file is absent
    edits,          \* number of edits the user has made to the working tree
    repoExists,     \* the marker directory of repoDir exists
    marker,         \* directory other than repoDir -> what its marker directory holds
    headExists,     \* the HEAD file exists
    head,           \* content of HEAD: a commit hash, 0 when empty
    toCommitExists, \* the TO_COMMIT file exists
    toCommit,       \* lines of TO_COMMIT (the staging list)
    rec,            \* commit hash -> the record directory of that commit; 0 -> the
                    \* directory COMMIT_DIR of the marker directory itself
    pc,             \* process -> position in the command it runs
    loc             \* process -> local variables of the command it runs

vars == <<wt, edits, repoExists, marker, headExists, head, toCommitExists, toCommit, rec, pc, loc>>

(***************************************************************************)
(* Bounds of the model.                                                    *)
(***************************************************************************)
MaxCommits == 2     \* commit hashes uuid4 can return
MaxEdits == 1       \* edits of the working tree by the user
MaxSteps == 5       \* turns of the loop of nearestRepo the model follows

Procs == {"p1", "p2"}
\* the process that runs the commands when they run one at a time
Shell == {"p1"}
Ids == 1..MaxCommits
\* what HEAD can hold when generateDirTree reads it: a hash or nothing (0)
HeadValues == {0} \cup Ids
Contents == {1, 2}

(***************************************************************************)
(* Names and paths.  A file name is the pair <<first character, rest>>, a  *)
(* path is a record: abs tells whether it starts at "/", comps are its     *)
(* components.  The relative path "." has no components.  A path that      *)
(* begins with exactly two slashes keeps them through normpath, join and   *)
(* dirname: it has DoubleSlash as its first component.                     *)
(***************************************************************************)
DoubleSlash == <<"/", "/">>
REPO_DIR == <<".", "simplegit">>
HEAD == <<"H", "EAD">>
CurDir == <<".", "">>
ParDir == <<".", ".">>
WorkDir == <<"w", "ork">>
FileA == <<"a", ".txt">>
Sub == <<"s", "ub">>
FileB == <<"b", ".txt">>
COMMIT_DIR == <<"C", "OMMIT_DIR">>

AbsP(c) == [abs |-> TRUE, comps |-> c]
RelP(c) == [abs |-> FALSE, comps |-> c]
None == [abs |-> FALSE, comps |-> <<ParDir, ParDir, ParDir, ParDir>>]

\* the working-tree files of the model, relative to the repository root
WFiles == {RelP(<<FileA>>), RelP(<<Sub, FileB>>)}
\* the files the user edits
Editable == {RelP(<<FileA>>)}
\* the directory the commands are run in or under
repoDir == AbsP(<<WorkDir>>)
\* the other directories init is run in: the root and the subdirectory.  Of a
\* repository made there the model holds the marker directory only: "absent",
\* "empty", with "head" (HEAD), or "full" (HEAD and TO_COMMIT)
OtherRoots == {AbsP(<<>>), AbsP(<<WorkDir, Sub>>)}

RECURSIVE NormComps(_, _, _)
NormComps(comps, abs, acc) ==
    IF comps = <<>> THEN acc
    ELSE LET c == Head(comps)
             rest == Tail(comps)
         IN  IF c = CurDir THEN NormComps(rest, abs, acc)
             ELSE IF c = ParDir
                  THEN IF acc # <<>> /\ acc[Len(acc)] \notin {ParDir, DoubleSlash}
                       THEN NormComps(rest, abs, SubSeq(acc, 1, Len(acc) - 1))
                       ELSE IF abs THEN NormComps(rest, abs, acc)
                            ELSE NormComps(rest, abs, Append(acc, c))
                  ELSE NormComps(rest, abs, Append(acc, c))

normpath(p) == [abs |-> p.abs, comps |-> NormComps(p.comps, p.abs, <<>>)]

join(a, b) == IF b.abs THEN b ELSE [abs |-> a.abs, comps |-> a.comps \o b.comps]

dirname(p) ==
    [abs |-> p.abs,
     comps |-> IF p.comps = <<>> \/ p.comps = <<DoubleSlash>> THEN p.comps
               ELSE SubSeq(p.comps, 1, Len(p.comps) - 1)]

basename(p) == p.comps[Len(p.comps)]

RECURSIVE CommonLen(_, _)
CommonLen(s, t) ==
    IF s # <<>> /\ t # <<>> /\ Head(s) = Head(t)
    THEN 1 + CommonLen(Tail(s), Tail(t))
    ELSE 0

relpath(p, start) ==
    LET pc0 == normpath(p).comps
        sc0 == normpath(start).comps
        k == CommonLen(pc0, sc0)
    IN  RelP([i \in 1..(Len(sc0) - k) |-> ParDir] \o SubSeq(pc0, k + 1, Len(pc0)))

changePathsRef(initAbsolutePath, destAbsolutePath, files) ==
    [i \in 1..Len(files) |->
        relpath(normpath(join(initAbsolutePath, files[i])), destAbsolutePath)]

(***************************************************************************)
(* The file system as the program sees it, for normalised absolute paths.  *)
(***************************************************************************)
IsUnder(p, d) ==
    /\ Len(p.comps) >= Len(d.comps)
    /\ SubSeq(p.comps, 1, Len(d.comps)) = d.comps

Within(p, d) == RelP(SubSeq(p.comps, Len(d.comps) + 1, Len(p.comps)))

\* the file system takes two leading slashes for one
OnDisk(p) ==
    IF p.abs /\ p.comps # <<>> /\ Head(p.comps) = DoubleSlash
    THEN AbsP(Tail(p.comps))
    ELSE p

isdir(path) ==
    LET p == OnDisk(path)
    IN  \/ p = AbsP(<<>>)
        \/ p = repoDir
        \/ p = join(repoDir, RelP(<<Sub>>))
        \/ p = join(repoDir, RelP(<<REPO_DIR>>)) /\ repoExists
        \/ \E d \in OtherRoots : p = join(d, RelP(<<REPO_DIR>>)) /\ marker[d] # "absent"

\* p is a regular file, the working tree being w
isfileIn(w, path) ==
    LET p == OnDisk(path)
    IN  \/ /\ IsUnder(p, repoDir)
           /\ Within(p, repoDir) \in WFiles
           /\ w[Within(p, repoDir)] # 0
        \/ p = join(repoDir, RelP(<<REPO_DIR, HEAD>>)) /\ repoExists /\ headExists
        \/ \E d \in OtherRoots :
             p = join(d, RelP(<<REPO_DIR, HEAD>>)) /\ marker[d] \in {"head", "full"}

isfile(p) == isfileIn(wt, p)

existsIn(w, p) == isdir(p) \/ isfileIn(w, p)

exists(p) == existsIn(wt, p)

\* bytes of the file at p
contentOf(p) ==
    IF p = join(repoDir, RelP(<<REPO_DIR, HEAD>>)) THEN head
    ELSE IF \E d \in OtherRoots : p = join(d, RelP(<<REPO_DIR, HEAD>>)) THEN 0
    ELSE wt[Within(p, repoDir)]

\* names in directory p; within the marker directory the walk is bounded to HEAD
entriesIn(w, p) ==
    IF p = AbsP(<<>>) THEN {n \in {WorkDir, REPO_DIR} : existsIn(w, join(p, RelP(<<n>>)))}
    ELSE {n \in {FileA, Sub, FileB, REPO_DIR, HEAD} : existsIn(w, join(p, RelP(<<n>>)))}

entries(p) == entriesIn(wt, p)

\* the sequences that hold every element of S once
RECURSIVE Perms(_)
Perms(S) ==
    IF S = {} THEN {<<>>}
    ELSE UNION {{<<x>> \o q : q \in Perms(S \ {x})} : x \in S}

\* the directories of the model
SubDir == join(repoDir, RelP(<<Sub>>))
MarkerDir == join(repoDir, RelP(<<REPO_DIR>>))
SubMarkerDir == join(SubDir, RelP(<<REPO_DIR>>))
RootMarkerDir == AbsP(<<REPO_DIR>>)
Dirs == {AbsP(<<>>), repoDir, SubDir, MarkerDir, SubMarkerDir, RootMarkerDir}

\* the orders os.listdir can return for directory d; only the directories under
\* one of tops are listed, the others are not read
Orders(d, tops) ==
    IF \E t \in tops : IsUnder(d, t)
    THEN Perms(entries(d))
    ELSE {<<>>}

\* what os.listdir can return: every directory in some order, the same order
\* each time a command lists it
Listings(tops) ==
    {[d \in Dirs |-> IF d = repoDir THEN q1 ELSE IF d = SubDir THEN q2
                     ELSE IF d = MarkerDir THEN q3 ELSE IF d = AbsP(<<>>) THEN q4
                     ELSE IF d = SubMarkerDir THEN q5 ELSE q6] :
        q1 \in Orders(repoDir, tops), q2 \in Orders(SubDir, tops),
        q3 \in Orders(MarkerDir, tops), q4 \in Orders(AbsP(<<>>), tops),
        q5 \in Orders(SubMarkerDir, tops), q6 \in Orders(RootMarkerDir, tops)}

(***************************************************************************)
(* Helpers of the program.                                                 *)
(***************************************************************************)
RECURSIVE nearestRepoFrom(_)
nearestRepoFrom(tmpPath) ==
    LET possibleRepo == normpath(join(tmpPath, RelP(<<REPO_DIR>>)))
    IN  IF exists(possibleRepo) /\ isdir(possibleRepo) THEN dirname(possibleRepo)
        ELSE IF tmpPath = AbsP(<<>>) THEN None
        ELSE nearestRepoFrom(dirname(tmpPath))

nearestRepo(absolutePath) == nearestRepoFrom(normpath(absolutePath))

InList(x, list) == \E k \in 1..Len(list) : list[k] = x

\* addLoop without the test for a path that is staged already
RECURSIVE addLoopNoCheck(_, _, _, _)
addLoopNoCheck(repoPath, files, i, st) ==
    IF i > Len(files) THEN st
    ELSE LET file == files[i]
             filePath == normpath(join(repoPath, file))
         IN  IF ~exists(filePath)
             THEN addLoopNoCheck(repoPath, files, i + 1, [st EXCEPT !.errs = @ \cup {filePath}])
             ELSE IF isdir(filePath)
             THEN addLoopNoCheck(repoPath, files, i + 1, [st EXCEPT !.dirs = Append(@, file)])
             ELSE addLoopNoCheck(repoPath, files, i + 1, [st EXCEPT !.list = Append(@, file)])

\* addLoop that puts a new path at the head of the staging list
RECURSIVE addLoopPrepend(_, _, _, _)
addLoopPrepend(repoPath, files, i, st) ==
    IF i > Len(files) THEN st
    ELSE LET file == files[i]
             filePath == normpath(join(repoPath, file))
         IN  IF ~exists(filePath)
             THEN addLoopPrepend(repoPath, files, i + 1, [st EXCEPT !.errs = @ \cup {filePath}])
             ELSE IF isdir(filePath)
             THEN addLoopPrepend(repoPath, files, i + 1, [st EXCEPT !.dirs = Append(@, file)])
             ELSE IF ~InList(file, st.list)
             THEN addLoopPrepend(repoPath, files, i + 1, [st EXCEPT !.list = <<file>> \o @])
             ELSE addLoopPrepend(repoPath, files, i + 1, st)

\* addLoop that gives up the batch at the first path missing from disk
RECURSIVE addLoopAbort(_, _, _, _)
addLoopAbort(repoPath, files, i, st) ==
    IF i > Len(files) THEN st
    ELSE LET file == files[i]
             filePath == normpath(join(repoPath, file))
         IN  IF ~exists(filePath)
             THEN [st EXCEPT !.errs = @ \cup {filePath}]
             ELSE IF isdir(filePath)
             THEN addLoopAbort(repoPath, files, i + 1, [st EXCEPT !.dirs = Append(@, file)])
             ELSE IF ~InList(file, st.list)
             THEN addLoopAbort(repoPath, files, i + 1, [st EXCEPT !.list = Append(@, file)])
             ELSE addLoopAbort(repoPath, files, i + 1, st)

\* first loop of add: st = [list, dirs, errs]
RECURSIVE addLoop(_, _, _, _)
addLoop(repoPath, files, i, st) ==
    IF i > Len(files) THEN st
    ELSE LET file == files[i]
             filePath == normpath(join(repoPath, file))
         IN  IF ~exists(filePath)
             THEN addLoop(repoPath, files, i + 1, [st EXCEPT !.errs = @ \cup {filePath}])
             ELSE IF isdir(filePath)
             THEN addLoop(repoPath, files, i + 1, [st EXCEPT !.dirs = Append(@, file)])
             ELSE IF ~InList(file, st.list)
             THEN addLoop(repoPath, files, i + 1, [st EXCEPT !.list = Append(@, file)])
             ELSE addLoop(repoPath, files, i + 1, st)

\* add(repoPath, files) on the staging list st.list, with L[d] what os.listdir(d)
\* returns: the resulting [list, errs]
RECURSIVE add(_, _, _, _)
RECURSIVE addDirs(_, _, _, _, _)
add(repoPath, files, st, L) ==
    LET r == addLoop(repoPath, files, 1, [list |-> st.list, dirs |-> <<>>, errs |-> st.errs])
    IN  addDirs(repoPath, r.dirs, 1, [list |-> r.list, errs |-> r.errs], L)

addDirs(repoPath, dirs, i, st, L) ==
    IF i > Len(dirs) THEN st
    ELSE LET filesInSubdir == L[normpath(join(repoPath, dirs[i]))]
             st2 == add(repoPath,
                        [k \in 1..Len(filesInSubdir) |->
                            normpath(join(dirs[i], RelP(<<filesInSubdir[k]>>)))],
                        st, L)
         IN  addDirs(repoPath, dirs, i + 1, st2, L)

\* walk that descends into hidden directories
RECURSIVE walkAll(_, _)
walkAll(w, root) ==
    LET files == {f \in entriesIn(w, root) : isfileIn(w, join(root, RelP(<<f>>))) /\ ~(f[1] = ".")}
        dirs == {d \in entriesIn(w, root) : isdir(join(root, RelP(<<d>>)))}
    IN  {normpath(join(root, RelP(<<f>>))) : f \in files}
        \cup UNION {walkAll(w, join(root, RelP(<<d>>))) : d \in dirs}

\* os.walk from root in working tree w, hidden files and directories left out:
\* the absolute paths of the files
RECURSIVE walk(_, _)
walk(w, root) ==
    LET files == {f \in entriesIn(w, root) : isfileIn(w, join(root, RelP(<<f>>))) /\ ~(f[1] = ".")}
        dirs == {d \in entriesIn(w, root) : isdir(join(root, RelP(<<d>>))) /\ ~(d[1] = ".")}
    IN  {normpath(join(root, RelP(<<f>>))) : f \in files}
        \cup UNION {walk(w, join(root, RelP(<<d>>))) : d \in dirs}

allFiles(w, path) == walk(w, path)

\* wasCommited with HEAD and the commit records given: h, r
wasCommited(h, r, file) ==
    IF h = 0 THEN FALSE ELSE InList(file, r[h].tracked)

wasAdded(file) == InList(file, toCommit)

\* status that reports a committed file whose bytes differ from its snapshot
statusInDiff(w, r, repoPath) ==
    LET abs == allFiles(w, repoPath)
        files == {relpath(normpath(join(AbsP(<<>>), f)), repoPath) : f \in abs}
    IN  [f \in files |->
            IF ~wasCommited(head, r, f)
            THEN IF ~wasAdded(f) THEN "new file"
                 ELSE "added and waiting to commit"
            ELSE IF f \in DOMAIN r[head].files /\ r[head].files[f] = w[f] THEN ""
                 ELSE "modified"]

\* the line status prints for each file ("" for none), in working tree w with
\* commit records r
statusIn(w, r, repoPath) ==
    LET abs == allFiles(w, repoPath)
        files == {relpath(normpath(join(AbsP(<<>>), f)), repoPath) : f \in abs}
    IN  [f \in files |->
            IF ~wasCommited(head, r, f)
            THEN IF ~wasAdded(f) THEN "new file"
                 ELSE "added and waiting to commit"
            ELSE ""]

status(repoPath) == statusIn(wt, rec, repoPath)

\* status fails on a file it cannot classify: HEAD or TO_COMMIT is missing
statusBroken(repoPath) ==
    \E f \in DOMAIN status(repoPath) :
        ~headExists \/ (~wasCommited(head, rec, f) /\ ~toCommitExists)

(***************************************************************************)
(* Processes.                                                              *)
(***************************************************************************)
NoOut == [f \in {} |-> ""]

IdleLoc ==
    [cmd |-> "none", result |-> "", newCommitHash |-> 0, lastCommitName |-> 0,
     headAtStart |-> 0, files |-> <<>>, dst |-> 0, out |-> NoOut, errs |-> {},
     path |-> None, tmpPath |-> None, found |-> None, steps |-> 0]

NoRecord ==
    [exists |-> FALSE, commitDir |-> FALSE, trackedExists |-> FALSE, tracked |-> <<>>,
     prevExists |-> FALSE, prev |-> 0, dirs |-> {}, files |-> NoOut]

Init ==
    /\ wt = [f \in WFiles |-> 1]
    /\ edits = 0
    /\ repoExists = FALSE
    /\ marker = [d \in OtherRoots |-> "absent"]
    /\ headExists = FALSE
    /\ head = 0
    /\ toCommitExists = FALSE
    /\ toCommit = <<>>
    /\ rec = [i \in HeadValues |-> NoRecord]
    /\ pc = [p \in Procs |-> "idle"]
    /\ loc = [p \in Procs |-> IdleLoc]

Quiet == \A q \in Procs : pc[q] = "idle"

fsVars == <<repoExists, marker, headExists, head, toCommitExists, toCommit, rec>>

\* the command of process p ends with the given result
Finish(p, l, result) ==
    /\ pc' = [pc EXCEPT ![p] = "done"]
    /\ loc' = [loc EXCEPT ![p] = [l EXCEPT !.result = result]]

\* the directories commands are run in
Cwds == {repoDir, SubDir}

\* add, commit and status are run where the repository found is the one in
\* repoDir, whose files the model holds, or where none is found
Modelled(currentRepo) == currentRepo \in {None, repoDir}

\* the paths given to add, relative to the directory it is run in
Args == {RelP(<<>>), RelP(<<Sub, ParDir, FileA>>), RelP(<<CurDir, Sub, FileB>>)}
\* the batches given to add: one path or two
Batches == {<<x>> : x \in Args} \cup {<<x, y>> : x \in Args, y \in Args}

\* the user changes or creates a working-tree file
WriteFile(f, c) ==
    /\ edits < MaxEdits
    /\ wt[f] # c
    /\ wt' = [wt EXCEPT ![f] = c]
    /\ edits' = edits + 1
    /\ UNCHANGED <<fsVars, pc, loc>>

\* the user deletes a working-tree file
DeleteFile(f) ==
    /\ edits < MaxEdits
    /\ wt[f] # 0
    /\ wt' = [wt EXCEPT ![f] = 0]
    /\ edits' = edits + 1
    /\ UNCHANGED <<fsVars, pc, loc>>

\* main that looks for a marker directory in the current directory only
InitInHere(p, currentDir) ==
    /\ pc[p] = "idle"
    /\ LET l == [IdleLoc EXCEPT !.cmd = "init", !.path = currentDir]
       IN  IF isdir(normpath(join(currentDir, RelP(<<REPO_DIR>>))))
           THEN Finish(p, l, "fatal")
           ELSE /\ pc' = [pc EXCEPT ![p] = "init_mkdir"]
                /\ loc' = [loc EXCEPT ![p] = l]
    /\ UNCHANGED <<wt, edits, fsVars>>

\* simplegit init, run in the directory currentDir: main
InitIn(p, currentDir) ==
    /\ pc[p] = "idle"
    /\ LET l == [IdleLoc EXCEPT !.cmd = "init", !.path = currentDir]
       IN  IF nearestRepo(currentDir) # None
           THEN Finish(p, l, "fatal")
           ELSE /\ pc' = [pc EXCEPT ![p] = "init_mkdir"]
                /\ loc' = [loc EXCEPT ![p] = l]
    /\ UNCHANGED <<wt, edits, fsVars>>

\* simplegit init, run in the directory repoDir
InitStart(p) == InitIn(p, repoDir)

InitMkdir(p) ==
    /\ pc[p] = "init_mkdir"
    /\ IF exists(normpath(join(loc[p].path, RelP(<<REPO_DIR>>))))
       THEN Finish(p, loc[p], "fatal") /\ UNCHANGED <<repoExists, marker>>
       ELSE /\ IF loc[p].path = repoDir
               THEN repoExists' = TRUE /\ UNCHANGED marker
               ELSE /\ marker' = [marker EXCEPT ![loc[p].path] = "empty"]
                    /\ UNCHANGED repoExists
            /\ pc' = [pc EXCEPT ![p] = "init_head"]
            /\ UNCHANGED loc
    /\ UNCHANGED <<wt, edits, headExists, head, toCommitExists, toCommit, rec>>

InitHead(p) ==
    /\ pc[p] = "init_head"
    /\ IF isfile(normpath(join(loc[p].path, RelP(<<REPO_DIR, HEAD>>))))
       THEN Finish(p, loc[p], "error") /\ UNCHANGED <<marker, headExists, head>>
       ELSE /\ IF loc[p].path = repoDir
               THEN headExists' = TRUE /\ head' = 0 /\ UNCHANGED marker
               ELSE /\ marker' = [marker EXCEPT ![loc[p].path] = "head"]
                    /\ UNCHANGED <<headExists, head>>
            /\ pc' = [pc EXCEPT ![p] = "init_tocommit"]
            /\ UNCHANGED loc
    /\ UNCHANGED <<wt, edits, repoExists, toCommitExists, toCommit, rec>>

InitToCommit(p) ==
    /\ pc[p] = "init_tocommit"
    /\ IF loc[p].path = repoDir
       THEN /\ IF toCommitExists
               THEN Finish(p, loc[p], "error") /\ UNCHANGED <<toCommitExists, toCommit>>
               ELSE /\ toCommitExists' = TRUE
                    /\ toCommit' = <<>>
                    /\ Finish(p, loc[p], "ok")
            /\ UNCHANGED marker
       ELSE /\ IF marker[loc[p].path] = "full"
               THEN Finish(p, loc[p], "error") /\ UNCHANGED marker
               ELSE /\ marker' = [marker EXCEPT ![loc[p].path] = "full"]
                    /\ Finish(p, loc[p], "ok")
            /\ UNCHANGED <<toCommitExists, toCommit>>
    /\ UNCHANGED <<wt, edits, repoExists, headExists, head, rec>>

\* simplegit add batch, run in cwd: main and add
AddWith(p, cwd, batch) ==
    /\ pc[p] = "idle"
    /\ Modelled(nearestRepo(cwd))
    /\ LET currentRepo == nearestRepo(cwd)
           l == [IdleLoc EXCEPT !.cmd = "add"]
       IN  IF currentRepo = None
           THEN Finish(p, l, "fatal") /\ UNCHANGED toCommit
           ELSE IF ~toCommitExists
           THEN Finish(p, l, "broken") /\ UNCHANGED toCommit
           ELSE LET filesRepoPath == changePathsRef(cwd, currentRepo, batch)
                    tops == {normpath(join(currentRepo, filesRepoPath[i])) :
                                i \in 1..Len(filesRepoPath)}
                IN  \E L \in Listings(tops) :
                      LET r == add(currentRepo, filesRepoPath,
                                   [list |-> toCommit, errs |-> {}], L)
                      IN  /\ toCommit' = r.list
                          /\ Finish(p, [l EXCEPT !.files = filesRepoPath, !.errs = r.errs], "ok")
    /\ UNCHANGED <<wt, edits, repoExists, marker, headExists, head, toCommitExists, rec>>

Add(p) == \E cwd \in Cwds, batch \in Batches : AddWith(p, cwd, batch)

\* simplegit add of one path, a file or a directory
AddOne(p) == \E cwd \in Cwds, x \in Args : AddWith(p, cwd, <<x>>)

\* simplegit add of one file, run in repoDir
AddFile(p) == \E x \in Args \ {RelP(<<>>)} : AddWith(p, repoDir, <<x>>)

\* simplegit status, run in cwd: main and status
Status(p) ==
    /\ pc[p] = "idle"
    /\ \E cwd \in Cwds :
         LET currentRepo == nearestRepo(cwd)
             l == [IdleLoc EXCEPT !.cmd = "status"]
         IN  /\ Modelled(currentRepo)
             /\ IF currentRepo = None
                THEN Finish(p, l, "fatal")
                ELSE IF statusBroken(currentRepo)
                THEN Finish(p, l, "broken")
                ELSE Finish(p, [l EXCEPT !.out = status(currentRepo)], "ok")
    /\ UNCHANGED <<wt, edits, fsVars>>

\* the process of a finished command exits
Return(p) ==
    /\ pc[p] = "done"
    /\ pc' = [pc EXCEPT ![p] = "idle"]
    /\ loc' = [loc EXCEPT ![p] = IdleLoc]
    /\ UNCHANGED <<wt, edits, fsVars>>

(***************************************************************************)
(* nearestRepo applied to an absolute path, one turn of its loop a step.   *)
(***************************************************************************)
\* the absolute paths nearestRepo is applied to
SearchPaths ==
    {AbsP(<<>>), repoDir, SubDir, AbsP(<<WorkDir, Sub, ParDir>>),
     AbsP(<<WorkDir, CurDir, Sub, FileB>>), AbsP(<<DoubleSlash, WorkDir, Sub>>)}

SearchStart(p) ==
    /\ pc[p] = "idle"
    /\ \E absolutePath \in SearchPaths :
         /\ pc' = [pc EXCEPT ![p] = "search"]
         /\ loc' = [loc EXCEPT ![p] =
               [IdleLoc EXCEPT !.cmd = "search", !.path = absolutePath,
                               !.tmpPath = normpath(absolutePath)]]
    /\ UNCHANGED <<wt, edits, fsVars>>

\* one turn of the loop of nearestRepo
SearchStep(p) ==
    /\ pc[p] = "search"
    /\ loc[p].steps < MaxSteps
    /\ LET tmpPath == loc[p].tmpPath
           possibleRepo == normpath(join(tmpPath, RelP(<<REPO_DIR>>)))
           l == [loc[p] EXCEPT !.steps = @ + 1]
       IN  IF exists(possibleRepo) /\ isdir(possibleRepo)
           THEN Finish(p, [l EXCEPT !.found = dirname(possibleRepo)], "ok")
           ELSE IF tmpPath = AbsP(<<>>)
           THEN Finish(p, [l EXCEPT !.found = None], "ok")
           ELSE /\ loc' = [loc EXCEPT ![p] = [l EXCEPT !.tmpPath = dirname(tmpPath)]]
                /\ UNCHANGED pc
    /\ UNCHANGED <<wt, edits, fsVars>>

(***************************************************************************)
(* simplegit commit: main, commit and generateDirTree, one file system     *)
(* call a step.                                                            *)
(***************************************************************************)
\* commit with HEAD overwritten before it is read
CommitOrderPrevLast ==
    <<"assertnew", "mkrecord", "openhead", "writehead", "readhead", "writeprev",
      "copylist", "readlist", "asserthead", "readdst", "copy">>

\* commit with HEAD overwritten before the record directory is made
CommitOrderHeadFirst ==
    <<"openhead", "writehead", "assertnew", "mkrecord", "readhead", "writeprev",
      "copylist", "readlist", "asserthead", "readdst", "copy">>

\* the steps of commit in the order the code takes them
CommitOrder ==
    <<"assertnew", "mkrecord", "readhead", "writeprev", "openhead", "writehead",
      "copylist", "readlist", "asserthead", "readdst", "copy">>

After(label) ==
    LET i == CHOOSE k \in 1..Len(CommitOrder) : CommitOrder[k] = label
    IN  IF i = Len(CommitOrder) THEN "done" ELSE CommitOrder[i + 1]

\* process p leaves step label with locals l; the copy loop is skipped when
\* there is nothing to copy, and the command ends after its last step
Advance(p, label, l) ==
    LET n == After(label)
        m == IF n = "copy" /\ l.files = <<>> THEN After("copy") ELSE n
    IN  IF m = "done" THEN Finish(p, l, "ok")
        ELSE /\ pc' = [pc EXCEPT ![p] = m]
             /\ loc' = [loc EXCEPT ![p] = l]

\* the hashes uuid4 can return: one that names a record, or a new one (hashes are
\* interchangeable, the new one is the least unused)
uuid4 ==
    {i \in Ids : rec[i].exists \/ \A j \in Ids : j < i => rec[j].exists}

CommitStart(p) ==
    /\ pc[p] = "idle"
    /\ \E cwd \in Cwds, newCommitHash \in uuid4 :
         LET currentRepo == nearestRepo(cwd)
             l == [IdleLoc EXCEPT !.cmd = "commit"]
         IN  /\ Modelled(currentRepo)
             /\ IF currentRepo = None
                THEN Finish(p, l, "fatal")
                ELSE /\ pc' = [pc EXCEPT ![p] = CommitOrder[1]]
                     /\ loc' = [loc EXCEPT ![p] =
                           [l EXCEPT !.newCommitHash = newCommitHash, !.headAtStart = head]]
    /\ UNCHANGED <<wt, edits, fsVars>>

\* assert not os.path.exists(newPath)
CommitAssertNew(p) ==
    /\ pc[p] = "assertnew"
    /\ IF rec[loc[p].newCommitHash].exists
       THEN Finish(p, loc[p], "assertion")
       ELSE Advance(p, "assertnew", loc[p])
    /\ UNCHANGED <<wt, edits, fsVars>>

\* the record directory of the new commit: two mkdir, two mknod; mkdir fails
\* when the directory was made since the assertion
CommitMkRecord(p) ==
    /\ pc[p] = "mkrecord"
    /\ IF rec[loc[p].newCommitHash].exists
       THEN Finish(p, loc[p], "broken") /\ UNCHANGED rec
       ELSE /\ rec' = [rec EXCEPT ![loc[p].newCommitHash] =
                         [NoRecord EXCEPT !.exists = TRUE, !.commitDir = TRUE,
                                          !.trackedExists = TRUE, !.prevExists = TRUE]]
            /\ Advance(p, "mkrecord", loc[p])
    /\ UNCHANGED <<wt, edits, repoExists, marker, headExists, head, toCommitExists, toCommit>>

CommitReadHead(p) ==
    /\ pc[p] = "readhead"
    /\ IF ~headExists
       THEN Finish(p, loc[p], "broken")
       ELSE Advance(p, "readhead", [loc[p] EXCEPT !.lastCommitName = head])
    /\ UNCHANGED <<wt, edits, fsVars>>

\* commit that leaves PREV_COMMIT empty
CommitWritePrevSkip(p) ==
    /\ pc[p] = "writeprev"
    /\ Advance(p, "writeprev", loc[p])
    /\ UNCHANGED <<wt, edits, fsVars>>

\* commit that reads HEAD again when it writes PREV_COMMIT
CommitWritePrevReread(p) ==
    /\ pc[p] = "writeprev"
    /\ IF head # 0
       THEN rec' = [rec EXCEPT ![loc[p].newCommitHash].prev = head,
                               ![loc[p].newCommitHash].prevExists = TRUE]
       ELSE UNCHANGED rec
    /\ Advance(p, "writeprev", loc[p])
    /\ UNCHANGED <<wt, edits, repoExists, marker, headExists, head, toCommitExists, toCommit>>

CommitWritePrev(p) ==
    /\ pc[p] = "writeprev"
    /\ IF loc[p].lastCommitName # 0
       THEN rec' = [rec EXCEPT ![loc[p].newCommitHash].prev = loc[p].lastCommitName,
                               ![loc[p].newCommitHash].prevExists = TRUE]
       ELSE UNCHANGED rec
    /\ Advance(p, "writeprev", loc[p])
    /\ UNCHANGED <<wt, edits, repoExists, marker, headExists, head, toCommitExists, toCommit>>

\* open(HEAD, 'w') and truncate
CommitOpenHead(p) ==
    /\ pc[p] = "openhead"
    /\ headExists' = TRUE
    /\ head' = 0
    /\ Advance(p, "openhead", loc[p])
    /\ UNCHANGED <<wt, edits, repoExists, marker, toCommitExists, toCommit, rec>>

CommitWriteHead(p) ==
    /\ pc[p] = "writehead"
    /\ headExists' = TRUE
    /\ head' = loc[p].newCommitHash
    /\ Advance(p, "writehead", loc[p])
    /\ UNCHANGED <<wt, edits, repoExists, marker, toCommitExists, toCommit, rec>>

\* commit that empties the staging list once it has copied it
CommitCopyListClear(p) ==
    /\ pc[p] = "copylist"
    /\ toCommitExists
    /\ rec' = [rec EXCEPT ![loc[p].newCommitHash].tracked = toCommit,
                           ![loc[p].newCommitHash].trackedExists = TRUE]
    /\ toCommit' = <<>>
    /\ Advance(p, "copylist", loc[p])
    /\ UNCHANGED <<wt, edits, repoExists, marker, headExists, head, toCommitExists>>

\* commit that writes the staged paths to TRACKED_LIST last one first
CommitCopyListReversed(p) ==
    /\ pc[p] = "copylist"
    /\ toCommitExists
    /\ rec' = [rec EXCEPT ![loc[p].newCommitHash].tracked =
                              [k \in 1..Len(toCommit) |-> toCommit[Len(toCommit) + 1 - k]],
                           ![loc[p].newCommitHash].trackedExists = TRUE]
    /\ Advance(p, "copylist", loc[p])
    /\ UNCHANGED <<wt, edits, repoExists, marker, headExists, head, toCommitExists, toCommit>>

CommitCopyList(p) ==
    /\ pc[p] = "copylist"
    /\ IF ~toCommitExists
       THEN /\ rec' = [rec EXCEPT ![loc[p].newCommitHash].tracked = <<>>,
                                  ![loc[p].newCommitHash].trackedExists = TRUE]
            /\ Finish(p, loc[p], "broken")
       ELSE /\ rec' = [rec EXCEPT ![loc[p].newCommitHash].tracked = toCommit,
                                  ![loc[p].newCommitHash].trackedExists = TRUE]
            /\ Advance(p, "copylist", loc[p])
    /\ UNCHANGED <<wt, edits, repoExists, marker, headExists, head, toCommitExists, toCommit>>

\* commit that loses the first line of TO_COMMIT when it reads it for the snapshot
CommitReadListTail(p) ==
    /\ pc[p] = "readlist"
    /\ toCommitExists
    /\ Advance(p, "readlist",
               [loc[p] EXCEPT !.files = IF toCommit = <<>> THEN <<>> ELSE Tail(toCommit)])
    /\ UNCHANGED <<wt, edits, fsVars>>

CommitReadList(p) ==
    /\ pc[p] = "readlist"
    /\ IF ~toCommitExists
       THEN Finish(p, loc[p], "broken")
       ELSE Advance(p, "readlist", [loc[p] EXCEPT !.files = toCommit])
    /\ UNCHANGED <<wt, edits, fsVars>>

\* generateDirTree without its assertion on HEAD
CommitAssertHeadSkip(p) ==
    /\ pc[p] = "asserthead"
    /\ IF ~headExists THEN Finish(p, loc[p], "broken")
       ELSE Advance(p, "asserthead", loc[p])
    /\ UNCHANGED <<wt, edits, fsVars>>

CommitAssertHead(p) ==
    /\ pc[p] = "asserthead"
    /\ IF ~headExists THEN Finish(p, loc[p], "broken")
       ELSE IF head = 0 THEN Finish(p, loc[p], "assertion")
       ELSE Advance(p, "asserthead", loc[p])
    /\ UNCHANGED <<wt, edits, fsVars>>

\* generateDirTree that copies into the snapshot of the commit before
CommitReadDstPrev(p) ==
    /\ pc[p] = "readdst"
    /\ headExists /\ head # 0
    /\ Advance(p, "readdst",
               [loc[p] EXCEPT !.dst = IF loc[p].lastCommitName # 0
                                      THEN loc[p].lastCommitName ELSE head])
    /\ UNCHANGED <<wt, edits, fsVars>>

CommitReadDst(p) ==
    /\ pc[p] = "readdst"
    /\ IF ~headExists
       THEN Finish(p, loc[p], "broken")
       ELSE Advance(p, "readdst", [loc[p] EXCEPT !.dst = head])
    /\ UNCHANGED <<wt, edits, fsVars>>

\* paths inside a snapshot are kept relative to its COMMIT_DIR
SnapRoot == AbsP(<<COMMIT_DIR>>)

snapIsDir(r, q) == IF q = SnapRoot THEN r.commitDir ELSE Within(q, SnapRoot) \in r.dirs

Prefixes(q) == {RelP(SubSeq(q.comps, 1, n)) : n \in 1..Len(q.comps)}

\* generateDirTree that skips a staged path missing from the working tree
copyOneSkipMissing(repoPath, r, f) ==
    LET srcPath == normpath(join(repoPath, f))
        newFilePath == normpath(join(SnapRoot, f))
    IN  IF ~isfile(srcPath) THEN [ok |-> TRUE, r |-> r]
        ELSE [ok |-> TRUE,
              r |-> [r EXCEPT !.dirs = @ \cup Prefixes(Within(dirname(newFilePath), SnapRoot)),
                              !.files =
                        [x \in DOMAIN @ \cup {Within(newFilePath, SnapRoot)} |->
                            IF x = Within(newFilePath, SnapRoot) THEN contentOf(srcPath)
                            ELSE @[x]]]]

\* one turn of the loop of generateDirTree on record r: [ok, r]
copyOne(repoPath, r, f) ==
    LET srcPath == normpath(join(repoPath, f))
        newFilePath == normpath(join(SnapRoot, f))
        made == IF ~snapIsDir(r, dirname(newFilePath))
                THEN [r EXCEPT !.dirs = @ \cup Prefixes(Within(newFilePath, SnapRoot)),
                               !.commitDir = TRUE]
                ELSE r
        dst == IF snapIsDir(made, newFilePath)
               THEN join(newFilePath, RelP(<<basename(srcPath)>>))
               ELSE newFilePath
    IN  IF ~isfile(srcPath) \/ ~snapIsDir(made, dirname(dst))
        THEN [ok |-> FALSE, r |-> made]
        ELSE [ok |-> TRUE,
              r |-> [made EXCEPT !.files =
                        [x \in DOMAIN @ \cup {Within(dst, SnapRoot)} |->
                            IF x = Within(dst, SnapRoot) THEN contentOf(srcPath) ELSE @[x]]]]

CommitCopy(p) ==
    /\ pc[p] = "copy"
    /\ LET c == copyOne(repoDir, rec[loc[p].dst], Head(loc[p].files))
           l == [loc[p] EXCEPT !.files = Tail(@)]
       IN  /\ rec' = [rec EXCEPT ![loc[p].dst] = c.r]
           /\ IF ~c.ok THEN Finish(p, loc[p], "broken")
              ELSE IF l.files = <<>> THEN Advance(p, "copy", l)
              ELSE pc' = pc /\ loc' = [loc EXCEPT ![p] = l]
    /\ UNCHANGED <<wt, edits, repoExists, marker, headExists, head, toCommitExists, toCommit>>

CommitStep(p) ==
    \/ CommitAssertNew(p) \/ CommitMkRecord(p) \/ CommitReadHead(p)
    \/ CommitWritePrev(p) \/ CommitOpenHead(p) \/ CommitWriteHead(p)
    \/ CommitCopyList(p) \/ CommitReadList(p) \/ CommitAssertHead(p)
    \/ CommitReadDst(p) \/ CommitCopy(p)

InitStep(p) == InitMkdir(p) \/ InitHead(p) \/ InitToCommit(p)

\* the process running a command is killed
Interrupt(p) ==
    /\ pc[p] \notin {"idle", "done"}
    /\ pc' = [pc EXCEPT ![p] = "idle"]
    /\ loc' = [loc EXCEPT ![p] = IdleLoc]
    /\ UNCHANGED <<wt, edits, fsVars>>

(***************************************************************************)
(* Specifications.  Spec: commands run one at a time and run to their end. *)
(* SpecInterrupt: commands run one at a time and can be killed at any      *)
(* step; the working tree stays as it is.                                  *)
(***************************************************************************)
Commands ==
    \/ \E p \in Shell : Quiet /\ InitStart(p)
    \/ \E p \in Shell : Quiet /\ Add(p)
    \/ \E p \in Shell : Quiet /\ Status(p)
    \/ \E p \in Shell : Quiet /\ CommitStart(p)
    \/ \E p \in Shell : InitStep(p)
    \/ \E p \in Shell : CommitStep(p)
    \/ \E p \in Shell : Return(p)

Next ==
    \/ \E f \in Editable, c \in Contents : Quiet /\ WriteFile(f, c)
    \/ \E f \in Editable : Quiet /\ DeleteFile(f)
    \/ Commands

Spec == Init /\ [][Next]_vars

NextInterrupt == Commands \/ \E p \in Shell : Interrupt(p)

SpecInterrupt == Init /\ [][NextInterrupt]_vars

(***************************************************************************)
(* SpecInit: init is run in the root, in repoDir or in the subdirectory,   *)
(* add and commit in the repository of repoDir, and nearestRepo is applied *)
(* to absolute paths; all run one at a time and to their end, the working  *)
(* tree stays as it is.                                                    *)
(***************************************************************************)
InitDirs == {AbsP(<<>>), repoDir, SubDir}

NextInit ==
    \/ \E p \in Shell, currentDir \in InitDirs : Quiet /\ InitIn(p, currentDir)
    \/ \E p \in Shell : Quiet /\ SearchStart(p)
    \/ \E p \in Shell : SearchStep(p)
    \/ \E p \in Shell : InitStep(p)
    \/ \E p \in Shell : Quiet /\ Add(p)
    \/ \E p \in Shell : Quiet /\ CommitStart(p)
    \/ \E p \in Shell : CommitStep(p)
    \/ \E p \in Shell : Return(p)

SpecInit == Init /\ [][NextInit]_vars

(***************************************************************************)
(* SpecRace: two commits run at the same time, their steps in any order;   *)
(* init and add of one file run alone, the working tree stays as it is.    *)
(***************************************************************************)
NextRace ==
    \/ \E p \in Shell : Quiet /\ InitStart(p)
    \/ \E p \in Shell : InitStep(p)
    \/ \E p \in Shell : Quiet /\ AddFile(p)
    \/ \E p \in Procs : CommitStart(p)
    \/ \E p \in Procs : CommitStep(p)
    \/ \E p \in Procs : Return(p)

SpecRace == Init /\ [][NextRace]_vars

(***************************************************************************)
(* SpecStage: one process runs init and commits, the other runs add of one *)
(* path between any two steps of them; the working tree stays as it is.    *)
(***************************************************************************)
NextStage ==
    \/ \E p \in Shell : Quiet /\ InitStart(p)
    \/ \E p \in Shell : InitStep(p)
    \/ \E p \in Procs \ Shell : AddOne(p)
    \/ \E p \in Shell : CommitStart(p)
    \/ \E p \in Shell : CommitStep(p)
    \/ \E p \in Procs : Return(p)

SpecStage == Init /\ [][NextStage]_vars

(***************************************************************************)
(* Properties.                                                             *)
(***************************************************************************)
Done(p, cmd) == pc[p] = "done" /\ loc[p].cmd = cmd

\* the record directories made so far
Records == {i \in Ids : rec[i].exists}

\* the number of PREV_COMMIT links from commit h to an empty predecessor, n links
\* already followed; -1 when a link names no record or the chain does not end
RECURSIVE ChainLen(_, _)
ChainLen(h, n) ==
    IF h = 0 THEN n
    ELSE IF ~rec[h].exists \/ n >= Cardinality(Ids) THEN 0 - 1
    ELSE ChainLen(rec[h].prev, n + 1)

IsPrefix(s, t) == Len(s) <= Len(t) /\ SubSeq(t, 1, Len(s)) = s

NoDuplicates(list) == \A i, j \in 1..Len(list) : list[i] = list[j] => i = j

HiddenPath(f) == \E k \in 1..Len(f.comps) : f.comps[k][1] = "."

InTree(f) == normpath(join(repoDir, f))

\* C1: when a commit has run to its end, HEAD holds the hash it allocated and the
\* PREV_COMMIT of that commit holds what HEAD held when the commit began
C1_CommitSetsHeadAndPrev ==
    \A p \in Procs :
        Done(p, "commit") /\ loc[p].result = "ok" =>
            /\ head = loc[p].newCommitHash
            /\ rec[loc[p].newCommitHash].prevExists
            /\ rec[loc[p].newCommitHash].prev = loc[p].headAtStart

\* a second commit has run to its end
C1_Witness ==
    \E p \in Procs :
        Done(p, "commit") /\ loc[p].result = "ok" /\ loc[p].headAtStart # 0

\* C2: between commands, the PREV_COMMIT links from HEAD end at an empty
\* predecessor after as many steps as there are commit records
C2_ChainIntegrity ==
    (\A p \in Procs : pc[p] \in {"idle", "done"}) =>
        ChainLen(head, 0) = Cardinality(Records)

\* two commits were made, one of them failed while it copied the files
C2_Witness ==
    /\ Quiet
    /\ Cardinality(Records) >= 2
    /\ \E i \in Records : rec[i].tracked # <<>> /\ DOMAIN rec[i].files = {}
    /\ ChainLen(head, 0) = Cardinality(Records)

\* C3: when a commit has run to its end, its snapshot holds every path of its
\* TRACKED_LIST as a file at that very path, with the bytes of the working tree
C3_SnapshotFidelity ==
    \A p \in Procs :
        Done(p, "commit") /\ loc[p].result = "ok" =>
            LET r == rec[loc[p].newCommitHash]
            IN  \A k \in 1..Len(r.tracked) :
                    /\ r.tracked[k] \in DOMAIN r.files
                    /\ r.files[r.tracked[k]] = contentOf(InTree(r.tracked[k]))

\* C4: the staging list never holds a path twice, and an add whose paths are all
\* staged already leaves it as it is
C4_StagingIdempotent ==
    [][/\ NoDuplicates(toCommit')
       /\ \A p \in Procs :
            (/\ pc[p] = "idle" /\ pc'[p] = "done"
             /\ loc'[p].cmd = "add" /\ loc'[p].result = "ok"
             /\ \A i \in 1..Len(loc'[p].files) : InList(loc'[p].files[i], toCommit))
            => toCommit' = toCommit]_vars

\* an add was given the same file twice, and the file is staged
C4_Witness ==
    \E p \in Procs :
        /\ Done(p, "add") /\ loc[p].result = "ok"
        /\ Len(loc[p].files) = 2
        /\ loc[p].files[1] = loc[p].files[2]
        /\ InList(loc[p].files[1], toCommit)
        /\ Len(toCommit) >= 2

\* the files under directory d (relative to the repository) at any depth
FilesUnder(d) ==
    {f \in WFiles \cup {RelP(<<REPO_DIR, HEAD>>)} :
        IsUnder(f, d) /\ isfile(InTree(f))}

\* C5: when add has run on a directory, every file under it that is not hidden
\* is staged, and no staged path has a component that begins with '.'
C5_AddSkipsHidden ==
    \A p \in Procs :
        Done(p, "add") /\ loc[p].result = "ok" =>
            /\ \A i \in 1..Len(loc[p].files) :
                 isdir(InTree(loc[p].files[i])) =>
                    \A f \in FilesUnder(loc[p].files[i]) :
                        ~HiddenPath(f) => InList(f, toCommit)
            /\ \A k \in 1..Len(toCommit) : ~HiddenPath(toCommit[k])

\* the working-tree files that are not hidden
VisibleFiles == {f \in WFiles : wt[f] # 0 /\ ~HiddenPath(f)}

\* C6: status gives every working-tree file that is not hidden one class:
\* committed (no line) if the TRACKED_LIST of the HEAD commit holds it, else
\* staged if the staging list holds it, else untracked
C6_StatusClassifies ==
    \A p \in Procs :
        Done(p, "status") /\ loc[p].result = "ok" =>
            /\ DOMAIN loc[p].out = VisibleFiles
            /\ \A f \in VisibleFiles :
                 loc[p].out[f] =
                    IF head # 0 /\ InList(f, rec[head].tracked) THEN ""
                    ELSE IF InList(f, toCommit) THEN "added and waiting to commit"
                    ELSE "new file"

\* status has found a committed file and a staged one
C6_Witness ==
    \E p \in Procs :
        /\ Done(p, "status") /\ loc[p].result = "ok"
        /\ \E f, g \in DOMAIN loc[p].out :
             loc[p].out[f] = "" /\ loc[p].out[g] = "added and waiting to commit"

\* the working trees with the files of w, whatever their bytes
SamePaths(w) ==
    {w2 \in [WFiles -> {0} \cup Contents] : \A f \in WFiles : (w2[f] = 0) <=> (w[f] = 0)}

\* the commit records r with every snapshot byte replaced by c
Resnapped(r, c) ==
    [i \in Ids |-> [r[i] EXCEPT !.files = [x \in DOMAIN r[i].files |-> c]]]

\* C7: what status prints is what it prints for any other bytes in the same
\* working-tree files and snapshots
C7_StatusIgnoresContent ==
    \A p \in Procs :
        Done(p, "status") /\ loc[p].result = "ok" =>
            \A w2 \in SamePaths(wt), c \in Contents :
                statusIn(w2, Resnapped(rec, c), repoDir) = loc[p].out

\* status has printed nothing for a committed file changed since the commit
C7_Witness ==
    \E p \in Procs :
        /\ Done(p, "status") /\ loc[p].result = "ok"
        /\ head # 0
        /\ \E f \in DOMAIN loc[p].out :
             /\ loc[p].out[f] = ""
             /\ f \in DOMAIN rec[head].files
             /\ rec[head].files[f] # wt[f]

\* C8: every step keeps the staging list as a prefix of the new one, and the
\* steps of commit and status leave it unchanged
C8_StagingAppendOnly ==
    [][/\ IsPrefix(toCommit, toCommit')
       /\ \A p \in Procs :
            (loc[p].cmd \in {"commit", "status"} \/ loc'[p].cmd \in {"commit", "status"})
            => toCommit' = toCommit]_vars

\* a commit has failed with two paths staged
C8_Witness ==
    \E p \in Procs :
        Done(p, "commit") /\ loc[p].result = "broken" /\ Len(toCommit) >= 2

\* C9: HEAD is empty or names a record directory whose PREV_COMMIT is written:
\* it names a record or nothing, and while the commit that made the record runs
\* it holds what HEAD held before
C9_HeadNamesRecord ==
    headExists /\ head # 0 =>
        /\ rec[head].exists
        /\ rec[head].prevExists
        /\ rec[head].prev # head
        /\ rec[head].prev # 0 => rec[rec[head].prev].exists
        /\ \A p \in Procs :
             (/\ loc[p].cmd = "commit" /\ loc[p].newCommitHash = head
              /\ pc[p] \notin {"assertnew", "mkrecord"} /\ loc[p].result # "assertion")
             => rec[head].prev = loc[p].headAtStart

\* a commit was killed after it had overwritten HEAD and before it copied the
\* staging list
C9_Witness ==
    /\ Quiet
    /\ head # 0
    /\ toCommit # <<>>
    /\ rec[head].tracked = <<>>
    /\ rec[head].prev # 0

\* the staged paths missing from the working tree
MissingAt(k) == ~isfile(InTree(toCommit[k]))

FirstMissing == CHOOSE k \in 1..Len(toCommit) : MissingAt(k) /\ \A j \in 1..(k - 1) : ~MissingAt(j)

\* snapshot file q of record r is the copy of staged path f
CopyOf(r, q, f) ==
    /\ q \in {f, RelP(f.comps \o <<basename(f)>>)}
    /\ r.files[q] = contentOf(InTree(f))

\* C10: a commit that finds a staged path missing ends as a broken repository,
\* with HEAD set to its hash, the whole staging list in its TRACKED_LIST and the
\* copies of the paths before the missing one in its snapshot
C10_MissingPathBreaksCommit ==
    \A p \in Procs :
        (/\ Done(p, "commit")
         /\ loc[p].result \in {"ok", "broken"}
         /\ \E k \in 1..Len(toCommit) : MissingAt(k))
        => LET r == rec[loc[p].newCommitHash]
           IN  /\ loc[p].result = "broken"
               /\ head = loc[p].newCommitHash
               /\ r.tracked = toCommit
               /\ Cardinality(DOMAIN r.files) = FirstMissing - 1
               /\ \A j \in 1..(FirstMissing - 1) :
                    \E q \in DOMAIN r.files : CopyOf(r, q, toCommit[j])

\* a commit has failed on the second of two staged paths
C10_Witness ==
    \E p \in Procs :
        /\ Done(p, "commit") /\ loc[p].result = "broken"
        /\ Len(toCommit) >= 2
        /\ ~MissingAt(1)
        /\ MissingAt(2)
        /\ Cardinality(DOMAIN rec[head].files) = 1

\* the paths of a batch that are on disk, in the order of the batch
Present(files) == SelectSeq(files, LAMBDA f : exists(InTree(f)))

\* C11: an add reports the paths of its batch that are missing from disk, one
\* error each, and leaves the staging list that the batch without those paths
\* gives
C11_MissingPathSkipped ==
    [][\A p \in Procs :
        (/\ pc[p] = "idle" /\ pc'[p] = "done"
         /\ loc'[p].cmd = "add" /\ loc'[p].result = "ok")
        => LET files == loc'[p].files
               tops == {InTree(files[i]) : i \in 1..Len(files)}
           IN  /\ loc'[p].errs = {t \in tops : ~exists(t)}
               /\ \E L \in Listings(tops) :
                    toCommit' = add(repoDir, Present(files),
                                    [list |-> toCommit, errs |-> {}], L).list]_vars

\* an add has reported a missing path and staged the path given after it
C11_Witness ==
    \E p \in Procs :
        /\ Done(p, "add") /\ loc[p].result = "ok"
        /\ Len(loc[p].files) = 2
        /\ ~exists(InTree(loc[p].files[1]))
        /\ loc[p].errs = {InTree(loc[p].files[1])}
        /\ exists(InTree(loc[p].files[2]))
        /\ toCommit = <<loc[p].files[2]>>

\* process p runs a commit that has copied the staging list, or has ended one
\* that did
CopiedList(p) ==
    /\ loc[p].cmd = "commit"
    /\ \/ pc[p] \in {"readlist", "asserthead", "readdst", "copy"}
       \/ pc[p] = "done" /\ loc[p].result \in {"ok", "broken"}

\* C12: the TRACKED_LIST of a commit holds the staging list as it is when the
\* commit is made: the same paths in the same order
C12_TrackedIsStagingList ==
    \A p \in Procs :
        CopiedList(p) =>
            /\ rec[loc[p].newCommitHash].trackedExists
            /\ rec[loc[p].newCommitHash].tracked = toCommit

\* a second commit has ended with two paths staged, one of them since the first
C12_Witness ==
    \E p \in Procs :
        /\ Done(p, "commit") /\ loc[p].result \in {"ok", "broken"}
        /\ loc[p].headAtStart # 0
        /\ Len(toCommit) >= 2
        /\ Len(rec[loc[p].headAtStart].tracked) = 1
        /\ rec[loc[p].newCommitHash].tracked = toCommit

\* a commit that allocated hash i is at work on its record
Writing(i) ==
    \E p \in Procs :
        /\ loc[p].cmd = "commit"
        /\ loc[p].newCommitHash = i
        /\ pc[p] \notin {"idle", "done", "assertnew", "mkrecord"}

\* C13: no step changes a commit record whose commit has ended, nor a line of
\* the staging list; of what was written before, only HEAD is overwritten
C13_RecordsImmutable ==
    [][/\ \A i \in Ids : rec[i].exists /\ ~Writing(i) => rec'[i] = rec[i]
       /\ IsPrefix(toCommit, toCommit')]_vars

\* a commit has ended after another one that holds a snapshot file, and HEAD
\* was overwritten
C13_Witness ==
    \E p \in Procs :
        /\ Done(p, "commit") /\ loc[p].result \in {"ok", "broken"}
        /\ loc[p].headAtStart # 0
        /\ head # loc[p].headAtStart
        /\ DOMAIN rec[loc[p].headAtStart].files # {}
        /\ DOMAIN rec[loc[p].newCommitHash].files # {}

\* directory d holds a marker directory
HasMarker(d) == isdir(join(d, RelP(<<REPO_DIR>>)))

\* the directory path and the directories above it
UpTo(path) == {AbsP(SubSeq(path.comps, 1, n)) : n \in 0..Len(path.comps)}

\* after the step, the marker directory of d holds an empty HEAD and an empty
\* staging list
FreshRepo(d) ==
    IF d = repoDir
    THEN /\ repoExists' /\ headExists' /\ head' = 0
         /\ toCommitExists' /\ toCommit' = <<>>
    ELSE marker'[d] = "full"

\* C14: an init run where the directory or one above it holds a marker
\* directory ends at once as a fatal error; an init that fails changes nothing
\* of the repository and makes no marker directory; an init that succeeds has
\* made the marker directory with an empty HEAD and an empty staging list
C14_InitNeedsNoRepo ==
    [][\A p \in Procs :
        /\ (pc[p] = "idle" /\ loc'[p].cmd = "init") =>
              IF \E d \in UpTo(loc'[p].path) : HasMarker(d)
              THEN pc'[p] = "done" /\ loc'[p].result = "fatal"
              ELSE pc'[p] = "init_mkdir"
        /\ (/\ loc'[p].cmd = "init" /\ pc[p] # "done" /\ pc'[p] = "done"
            /\ loc'[p].result # "ok") => fsVars' = fsVars
        /\ (/\ loc'[p].cmd = "init" /\ pc[p] # "done" /\ pc'[p] = "done"
            /\ loc'[p].result = "ok") => FreshRepo(loc[p].path)]_vars

\* an init run in the subdirectory of a repository with a commit has failed
C14_Witness ==
    \E p \in Procs :
        /\ Done(p, "init") /\ loc[p].result = "fatal"
        /\ loc[p].path = SubDir
        /\ marker[SubDir] = "absent"
        /\ head # 0
        /\ toCommit # <<>>

\* process p has ended a commit that made its record and wrote HEAD
Ended(p) == Done(p, "commit") /\ loc[p].result = "ok"

\* two commits that ran at the same time have ended and had read the same HEAD
Forked(p, q) ==
    /\ p # q
    /\ Ended(p) /\ Ended(q)
    /\ loc[p].newCommitHash # loc[q].newCommitHash
    /\ loc[p].lastCommitName = loc[q].lastCommitName

\* C15: when two commits whose steps interleave have read the same HEAD, both
\* hold it in their PREV_COMMIT, HEAD names one of the two, and the PREV_COMMIT
\* links from HEAD reach fewer records than were made
C15_CommitsFork ==
    \A p, q \in Procs :
        Forked(p, q) =>
            /\ rec[loc[p].newCommitHash].prev = loc[p].lastCommitName
            /\ rec[loc[q].newCommitHash].prev = loc[p].lastCommitName
            /\ head \in {loc[p].newCommitHash, loc[q].newCommitHash}
            /\ ChainLen(head, 0) >= 0
            /\ ChainLen(head, 0) < Cardinality(Records)

\* two commits have read the same HEAD and ended
C15_Witness ==
    \E p, q \in Procs :
        /\ Forked(p, q)
        /\ toCommit # <<>>
        /\ rec[loc[p].newCommitHash].tracked = toCommit
        /\ rec[loc[q].newCommitHash].tracked = toCommit

\* the step is one of process p
Stepped(p) == pc'[p] # pc[p] \/ loc'[p] # loc[p]

Range(list) == {list[k] : k \in 1..Len(list)}

\* the staged paths record r holds a snapshot file for: at the path, or in the
\* directory generateDirTree makes at the path
SnapshotOf(r) ==
    {f \in Range(toCommit) \cup Range(r.tracked) :
        \E q \in DOMAIN r.files : q \in {f, RelP(f.comps \o <<basename(f)>>)}}

\* C17 as stated: a commit that ran with adds in between holds a snapshot file
\* for the paths of its TRACKED_LIST and for no other
C17_SnapshotIsTracked ==
    \A p \in Procs :
        Ended(p) =>
            SnapshotOf(rec[loc[p].newCommitHash]) = Range(rec[loc[p].newCommitHash].tracked)

\* C17 as amended: the TRACKED_LIST of a commit that ran with adds in between
\* is the beginning of the staging list, and the commit holds a snapshot file
\* for the paths of a beginning of the staging list that is as long or longer
C17_SnapshotExtendsTracked ==
    \A p \in Procs :
        Ended(p) =>
            LET r == rec[loc[p].newCommitHash]
            IN  /\ IsPrefix(r.tracked, toCommit)
                /\ \E n \in Len(r.tracked)..Len(toCommit) :
                     SnapshotOf(r) = {toCommit[k] : k \in 1..n}

\* a commit has ended with a snapshot file for a path staged after it had
\* written its TRACKED_LIST
C17_Witness ==
    \E p \in Procs :
        /\ Ended(p)
        /\ rec[loc[p].newCommitHash].tracked # <<>>
        /\ \E f \in SnapshotOf(rec[loc[p].newCommitHash]) :
             ~InList(f, rec[loc[p].newCommitHash].tracked)

\* C18: a commit whose new hash names a record directory that exists ends at
\* once, reported as a broken repository, and changes nothing
C18_CollisionIsBroken ==
    [][\A p \in Procs :
        (/\ Stepped(p) /\ pc[p] = "assertnew"
         /\ rec[loc[p].newCommitHash].exists)
        => /\ pc'[p] = "done"
           /\ loc'[p].result = "broken"
           /\ fsVars' = fsVars]_vars

\* the directories from path up to the root, as many as the search can visit
Depth(path) == Len(OnDisk(normpath(path)).comps) + 1

\* the deepest directory among path and those above it that holds a marker
\* directory, None when there is none
Deepest(path) ==
    LET c == {d \in UpTo(OnDisk(normpath(path))) : HasMarker(d)}
    IN  IF c = {} THEN None
        ELSE CHOOSE d \in c : \A e \in c : Len(e.comps) <= Len(d.comps)

\* the search of process p, after the step: it has not run more turns than
\* there are directories to visit, its result is the deepest directory with a
\* marker directory, and the step has changed no file
SearchOk(p) ==
    /\ pc'[p] = "search" => loc'[p].steps < Depth(loc'[p].path)
    /\ pc'[p] = "done" => OnDisk(loc'[p].found) = Deepest(loc'[p].path)
    /\ fsVars' = fsVars /\ wt' = wt

\* C19: for every absolute path the search ends within one turn for each
\* directory from the path up to the root, returns the deepest of them that
\* holds a marker directory, None exactly when none does, and changes no state
C19_SearchTerminates ==
    [][\A p \in Procs : loc'[p].cmd = "search" => SearchOk(p)]_vars

\* the same for the absolute paths that begin with one slash, as those
\* os.getcwd returns
SearchFromOneSlash ==
    [][\A p \in Procs :
        (/\ loc'[p].cmd = "search"
         /\ ~InList(DoubleSlash, loc'[p].path.comps)) => SearchOk(p)]_vars

\* C20: the TRACKED_LIST of the commit HEAD names is a beginning of the staging
\* list; the TRACKED_LIST of a commit that has ended begins with that of its
\* predecessor; a path of the TRACKED_LIST of HEAD is staged; and when a commit
\* has ended, well or on a missing path, status gives no file as staged
C20_TrackedIsPrefixOfStaging ==
    /\ head # 0 => IsPrefix(rec[head].tracked, toCommit)
    /\ \A i \in Records :
         rec[i].prev # 0 /\ ~Writing(i) => IsPrefix(rec[rec[i].prev].tracked, rec[i].tracked)
    /\ \A f \in WFiles : wasCommited(head, rec, f) => wasAdded(f)
    /\ \A p \in Procs :
         Done(p, "commit") /\ loc[p].result \in {"ok", "broken"} =>
            \A f \in DOMAIN status(repoDir) :
                status(repoDir)[f] # "added and waiting to commit"

\* a path was staged after the second of two commits, each with a path more
\* than the one before
C20_Witness ==
    /\ Quiet
    /\ head # 0
    /\ rec[head].prev # 0
    /\ rec[rec[head].prev].tracked # <<>>
    /\ Len(rec[rec[head].prev].tracked) < Len(rec[head].tracked)
    /\ Len(rec[head].tracked) < Len(toCommit)

====
